---- MODULE Spec2Model ----
(***************************************************************************)
(* Model of msc_pygeoapi/process/weather/get_spectra_geoparquet.py:       *)
(* the module-level function get_spectra_geoparquet and the pygeoapi      *)
(* processor GetSpectraGeoparquetProcessor.execute that wraps it.         *)
(*                                                                         *)
(* Python values are tagged records [t, v]; a Python str is a sequence of *)
(* one-character strings, so lower(), upper(), split() and f-string       *)
(* concatenation are computed character by character.  A raised exception *)
(* is a record [kind |-> "raise", exc, msg], a normal return is           *)
(* [kind |-> "return", value].                                             *)
(***************************************************************************)
EXTENDS Integers, Sequences, FiniteSets, TLC

VARIABLES pc, entry, data, args, remote, opCalls, examined, paths, reads,
          steps, opResult, result

vars == <<pc, entry, data, args, remote, opCalls, examined, paths, reads,
          steps, opResult, result>>

(***************************************************************************)
(* Python values                                                           *)
(***************************************************************************)
None == [t |-> "NoneType", v |-> <<>>]
Str(s) == [t |-> "str", v |-> s]
Bool(b) == [t |-> "bool", v |-> <<b>>]
PyList(l) == [t |-> "list", v |-> l]
PyTuple(l) == [t |-> "tuple", v |-> l]

IsNone(x) == x.t = "NoneType"

\* bool(x) as Python's `if x:` computes it
Truthy(x) ==
  CASE x.t = "NoneType" -> FALSE
    [] x.t = "bool" -> x.v[1]
    [] OTHER -> Len(x.v) > 0

UpperChars == <<"A","B","C","D","E","F","G","H","I","J","K","L","M","N","O","P","Q","R","S","T","U","V","W","X","Y","Z">>
LowerChars == <<"a","b","c","d","e","f","g","h","i","j","k","l","m","n","o","p","q","r","s","t","u","v","w","x","y","z">>

LowerChar(c) ==
  IF \E i \in 1..Len(UpperChars) : UpperChars[i] = c
  THEN LowerChars[CHOOSE i \in 1..Len(UpperChars) : UpperChars[i] = c]
  ELSE c

UpperChar(c) ==
  IF \E i \in 1..Len(LowerChars) : LowerChars[i] = c
  THEN UpperChars[CHOOSE i \in 1..Len(LowerChars) : LowerChars[i] = c]
  ELSE c

\* str.lower() and str.upper() on the characters of a str
Lower(s) == [i \in 1..Len(s) |-> LowerChar(s[i])]
Upper(s) == [i \in 1..Len(s) |-> UpperChar(s[i])]

\* str.split(sep) for a one-character separator: the pieces between separators
RECURSIVE SplitFrom(_, _, _, _)
SplitFrom(s, sep, i, cur) ==
  IF i > Len(s) THEN <<cur>>
  ELSE IF s[i] = sep THEN <<cur>> \o SplitFrom(s, sep, i + 1, <<>>)
  ELSE SplitFrom(s, sep, i + 1, Append(cur, s[i]))

Split(s, sep) == SplitFrom(s, sep, 1, <<>>)

\* what an f-string writes for a value: str(None) is "None", a str is itself
Format(x) == IF IsNone(x) THEN <<"N","o","n","e">> ELSE x.v

(***************************************************************************)
(* Exceptions: the classes the module raises or catches and their bases    *)
(***************************************************************************)
ExcBase ==
  [c \in {"FileNotFoundError", "OSError", "EmptyDataError", "ArrowInvalid",
          "ValueError", "AttributeError", "KeyError",
          "ProcessorExecuteError", "Exception"} |->
     CASE c = "FileNotFoundError" -> "OSError"
       [] c = "OSError" -> "Exception"
       [] c = "EmptyDataError" -> "ValueError"
       [] c = "ArrowInvalid" -> "ValueError"
       [] c = "ValueError" -> "Exception"
       [] c = "AttributeError" -> "Exception"
       [] c = "KeyError" -> "Exception"
       [] c = "ProcessorExecuteError" -> "Exception"
       [] OTHER -> "BaseException"]

\* isinstance(e, cls), which is what an `except cls` clause tests
RECURSIVE IsInstance(_, _)
IsInstance(c, cls) ==
  IF c = cls THEN TRUE
  ELSE IF c \notin DOMAIN ExcBase THEN FALSE
  ELSE IsInstance(ExcBase[c], cls)

Raise(exc, msg) == [kind |-> "raise", exc |-> exc, msg |-> msg]
Return(value) == [kind |-> "return", value |-> value]

(***************************************************************************)
(* Tables.  A DataFrame is [columns, index, rows]: the ordered column      *)
(* labels, the row labels, and one function column -> cell per row.  A     *)
(* column label is a str (sequence of characters).                         *)
(***************************************************************************)
GEOMETRY == <<"g","e","o","m","e","t","r","y">>
POINT == <<"p","o","i","n","t">>
INDEX == <<"i","n","d","e","x">>
LEVEL_0 == <<"l","e","v","e","l","_","0">>

Range(s) == {s[i] : i \in 1..Len(s)}

\* RangeIndex(n): the labels 0 .. n-1
RangeIndex(n) == [i \in 1..n |-> i - 1]

RECURSIVE SelectPositions(_, _, _)
SelectPositions(s, keep, i) ==
  IF i > Len(s) THEN <<>>
  ELSE IF i \in keep THEN <<s[i]>> \o SelectPositions(s, keep, i + 1)
  ELSE SelectPositions(s, keep, i + 1)

\* the positions drop_duplicates keeps: the first occurrence of every full row
FirstOccurrences(df) ==
  {i \in 1..Len(df.rows) : \A j \in 1..(i - 1) : df.rows[j] # df.rows[i]}

\* df.drop_duplicates(ignore_index=True)
DropDuplicates(df) ==
  [columns |-> df.columns,
   index |-> RangeIndex(Cardinality(FirstOccurrences(df))),
   rows |-> SelectPositions(df.rows, FirstOccurrences(df), 1)]

\* df[:][col]: the Series of one column, carrying the row labels
Column(df, col) ==
  [index |-> df.index, values |-> [i \in 1..Len(df.rows) |-> df.rows[i][col]]]

\* df.drop(columns=[col]) for a column that exists
DropColumn(df, col) ==
  [columns |-> SelectSeq(df.columns, LAMBDA c : c # col),
   index |-> df.index,
   rows |-> [i \in 1..Len(df.rows) |->
               [c \in (DOMAIN df.rows[i]) \ {col} |-> df.rows[i][c]]]]

\* shapely.from_wkb on a well-known-binary point <<byte order, type, x, y>>
FromWkb(g) == [x |-> g[3], y |-> g[4]]

\* lambda p: {'y': p.y, 'x': p.x}
PointDict(p) == [y |-> p.y, x |-> p.x]

\* geom.map(lambda g: from_wkb(g))
MapFromWkb(ser) ==
  [index |-> ser.index, values |-> [i \in 1..Len(ser.values) |-> FromWkb(ser.values[i])]]

\* geom.map(lambda p: {'y': p.y, 'x': p.x})
MapPointDict(ser) ==
  [index |-> ser.index, values |-> [i \in 1..Len(ser.values) |-> PointDict(ser.values[i])]]

\* df[col] = ser: the values are aligned on the row labels; a new column is
\* appended after the existing ones, an existing one is overwritten in place
SetColumn(df, col, ser) ==
  [columns |-> IF col \in Range(df.columns) THEN df.columns
               ELSE Append(df.columns, col),
   index |-> df.index,
   rows |-> [i \in 1..Len(df.rows) |->
               [c \in (DOMAIN df.rows[i]) \cup {col} |->
                  IF c = col
                  THEN ser.values[CHOOSE j \in 1..Len(ser.index) :
                                    ser.index[j] = df.index[i]]
                  ELSE df.rows[i][c]]]]

\* the label reset_index() gives the column that receives the old row labels
ResetIndexLabel(df) == IF INDEX \notin Range(df.columns) THEN INDEX ELSE LEVEL_0

CANNOT_INSERT == <<"c","a","n","n","o","t"," ","i","n","s","e","r","t"," ","l","e","v","e","l","_","0",","," ","a","l","r","e","a","d","y"," ","e","x","i","s","t","s">>

\* df.reset_index(inplace=True): the old labels become the first column and
\* the rows are relabelled 0 .. n-1; inserting an existing label is an error
ResetIndex(df) ==
  IF ResetIndexLabel(df) \in Range(df.columns)
  THEN Raise("ValueError", CANNOT_INSERT)
  ELSE Return(
    [columns |-> <<ResetIndexLabel(df)>> \o df.columns,
     index |-> RangeIndex(Len(df.rows)),
     rows |-> [i \in 1..Len(df.rows) |->
                 [c \in (DOMAIN df.rows[i]) \cup {ResetIndexLabel(df)} |->
                    IF c = ResetIndexLabel(df) THEN df.index[i]
                    ELSE df.rows[i][c]]]])

\* df.to_dict(): column -> (row label -> cell)
ToDict(df) ==
  [c \in Range(df.columns) |->
     [l \in Range(df.index) |->
        df.rows[CHOOSE i \in 1..Len(df.index) : df.index[i] = l][c]]]

\* the `if "geometry" in df.columns:` block: geometry becomes point, the row
\* labels are reset and the column named "index" is dropped
GeometryToPoint(df) ==
  LET geom == MapPointDict(MapFromWkb(Column(df, GEOMETRY)))
      withPoint == SetColumn(DropColumn(df, GEOMETRY), POINT, geom)
      reset == ResetIndex(withPoint)
  IN IF reset.kind = "raise" THEN reset
     ELSE Return(DropColumn(reset.value, INDEX))

(***************************************************************************)
(* The table reader pd.read_parquet(path, columns=..., filters=...).  The  *)
(* remote source answers a request either with a failure [status, msg] or  *)
(* with the stored table, to which the reader applies the filter clauses   *)
(* (a conjunction) and then the column projection.                         *)
(***************************************************************************)
NO_SUCH_FIELD == <<"N","o"," ","m","a","t","c","h"," ","f","o","r"," ","F","i","e","l","d","R","e","f">>
EQ == <<"=","=">>
NE == <<"!","=">>

ClauseHolds(row, clause) ==
  CASE clause.v[2] = EQ -> row[clause.v[1]] = clause.v[3]
    [] clause.v[2] = NE -> row[clause.v[1]] # clause.v[3]
    [] OTHER -> FALSE

FilterRows(rows, filters) ==
  IF IsNone(filters) THEN rows
  ELSE SelectSeq(rows, LAMBDA r :
         \A k \in 1..Len(filters.v) : ClauseHolds(r, filters.v[k]))

ProjectRows(rows, columns) ==
  [i \in 1..Len(rows) |-> [c \in Range(columns) |-> rows[i][c]]]

ReadParquet(path, columns, filters, rem) ==
  IF rem.status # "ok" THEN Raise(rem.status, rem.msg)
  ELSE IF /\ ~IsNone(filters)
          /\ \E k \in 1..Len(filters.v) :
               \/ filters.v[k].v[1] \notin Range(rem.table.columns)
               \/ filters.v[k].v[2] \notin {EQ, NE}
       THEN Raise("ArrowInvalid", NO_SUCH_FIELD)
  ELSE IF ~IsNone(columns) /\ ~(Range(columns.v) \subseteq Range(rem.table.columns))
       THEN Raise("ArrowInvalid", NO_SUCH_FIELD)
  ELSE LET kept == FilterRows(rem.table.rows, filters)
           cols == IF IsNone(columns) THEN rem.table.columns ELSE columns.v
       IN Return([columns |-> cols,
                  index |-> RangeIndex(Len(kept)),
                  rows |-> ProjectRows(kept, cols)])

(***************************************************************************)
(* get_spectra_geoparquet                                                  *)
(***************************************************************************)
MAIN_URL == <<"h","t","t","p","s",":","/","/","g","o","c","-","d","x",".","s","c","i","e","n","c","e",".","g","c",".","c","a","/","~","s","w","a","v","0","0","0","/","g","e","o","p","a","r","q","u","e","t">>

GEWPS == <<"g","e","w","p","s">>
GDWPS == <<"g","d","w","p","s">>
RDWPS == <<"r","d","w","p","s">>
REWPS == <<"r","e","w","p","s">>

INVALID_MODEL == <<"I","n","v","a","l","i","d"," ","m","o","d","e","l"," ">>
FILE_NOT_FOUND == <<"F","i","l","e"," ","n","o","t"," ","f","o","u","n","d",":"," ">>
EMPTY_DATA == <<"E","m","p","t","y"," ","d","a","t","a",":"," ">>
UNEXPECTED == <<"A","n"," ","u","n","e","x","p","e","c","t","e","d"," ","e","r","r","o","r"," ","o","c","c","u","r","r","e","d",":"," ">>
NO_LOWER == <<"'","N","o","n","e","T","y","p","e","'"," ","o","b","j","e","c","t"," ","h","a","s"," ","n","o"," ","a","t","t","r","i","b","u","t","e"," ","'","l","o","w","e","r","'">>
NO_UPPER == <<"'","N","o","n","e","T","y","p","e","'"," ","o","b","j","e","c","t"," ","h","a","s"," ","n","o"," ","a","t","t","r","i","b","u","t","e"," ","'","u","p","p","e","r","'">>

\* if columns is not None: columns = columns.split(';')
SplitColumns(columns) ==
  IF IsNone(columns) THEN None ELSE PyList(Split(columns.v, ";"))

\* if filters is not None: filters = [tuple(filter) for filter in filters]
TupleFilters(filters) ==
  IF IsNone(filters) THEN None
  ELSE PyList([i \in 1..Len(filters.v) |-> PyTuple(filters.v[i].v)])

PathA(model, variable, date) ==
  MAIN_URL \o <<"/">> \o Lower(model.v) \o <<"/">> \o Format(date)
    \o <<"_","M","S","C","_">> \o Upper(model.v) \o <<"_">> \o Upper(variable.v)
    \o <<".","g","e","o","p","a","r","q","u","e","t">>

PathB(model, variable, date, region) ==
  MAIN_URL \o <<"/">> \o Lower(model.v) \o <<"/">> \o Format(date)
    \o <<"_","M","S","C","_">> \o Upper(model.v) \o <<"-">> \o Format(region)
    \o <<"_">> \o Upper(variable.v)
    \o <<".","g","e","o","p","a","r","q","u","e","t">>

BuildPathRegionAlways(model, variable, date, region) ==
  IF IsNone(model) THEN Raise("AttributeError", NO_LOWER)
  ELSE IF Lower(model.v) \in {GEWPS, GDWPS, RDWPS, REWPS}
  THEN IF IsNone(variable) THEN Raise("AttributeError", NO_UPPER)
       ELSE Return(PathB(model, variable, date, region))
  ELSE Raise("ValueError", INVALID_MODEL \o model.v)

BuildPathDefaultFamily(model, variable, date, region) ==
  IF IsNone(model) THEN Raise("AttributeError", NO_LOWER)
  ELSE IF Lower(model.v) \in {RDWPS, REWPS}
  THEN IF IsNone(variable) THEN Raise("AttributeError", NO_UPPER)
       ELSE Return(PathB(model, variable, date, region))
  ELSE IF IsNone(variable) THEN Raise("AttributeError", NO_UPPER)
  ELSE Return(PathA(model, variable, date))

\* the if / elif / else on model.lower() that builds the path or raises
BuildPath(model, variable, date, region) ==
  IF IsNone(model) THEN Raise("AttributeError", NO_LOWER)
  ELSE IF Lower(model.v) \in {GEWPS, GDWPS}
  THEN IF IsNone(variable) THEN Raise("AttributeError", NO_UPPER)
       ELSE Return(PathA(model, variable, date))
  ELSE IF Lower(model.v) \in {RDWPS, REWPS}
  THEN IF IsNone(variable) THEN Raise("AttributeError", NO_UPPER)
       ELSE Return(PathB(model, variable, date, region))
  ELSE Raise("ValueError", INVALID_MODEL \o model.v)

LoadErrorGenericFirst(e) ==
  IF IsInstance(e.exc, "Exception")
  THEN Raise("Exception", UNEXPECTED \o e.msg)
  ELSE e

\* the except clauses around pd.read_parquet, in the order they are written
LoadError(e) ==
  IF IsInstance(e.exc, "FileNotFoundError")
  THEN Raise("FileNotFoundError", FILE_NOT_FOUND \o e.msg)
  ELSE IF IsInstance(e.exc, "EmptyDataError")
  THEN Raise("EmptyDataError", EMPTY_DATA \o e.msg)
  ELSE IF IsInstance(e.exc, "Exception")
  THEN Raise("Exception", UNEXPECTED \o e.msg)
  ELSE e

\* everything after the load: optional dedup, geometry handling, to_dict
Transform(df, remove_duplicates) ==
  LET dedup == IF Truthy(remove_duplicates) THEN DropDuplicates(df) ELSE df
      geo == IF GEOMETRY \in Range(dedup.columns)
             THEN GeometryToPoint(dedup) ELSE Return(dedup)
  IN [outcome |-> IF geo.kind = "raise" THEN geo ELSE Return(ToDict(geo.value)),
      steps |-> (IF Truthy(remove_duplicates) THEN <<"drop_duplicates">> ELSE <<>>)
                \o (IF GEOMETRY \in Range(dedup.columns) THEN <<"geometry">> ELSE <<>>)
                \o (IF geo.kind = "raise" THEN <<>> ELSE <<"to_dict">>)]

\* The whole function.  The result records, besides the outcome, every path
\* string built, every call made to the reader and the order of the steps.
GetSpectraGeoparquet(a, rem) ==
  LET columns == SplitColumns(a.columns)
      filters == TupleFilters(a.filters)
      pre == (IF IsNone(a.columns) THEN <<>> ELSE <<"split">>)
             \o (IF IsNone(a.filters) THEN <<>> ELSE <<"tuple">>)
      path == BuildPath(a.model, a.variable, a.date, a.region)
  IN IF path.kind = "raise"
     THEN [outcome |-> path, paths |-> <<>>, reads |-> <<>>, steps |-> pre]
     ELSE LET call == [path |-> path.value, columns |-> columns, filters |-> filters]
              df == ReadParquet(path.value, columns, filters, rem)
          IN IF df.kind = "raise"
             THEN [outcome |-> LoadError(df), paths |-> <<path.value>>,
                   reads |-> <<call>>, steps |-> pre \o <<"path", "read_parquet">>]
             ELSE LET tr == Transform(df.value, a.remove_duplicates)
                  IN [outcome |-> tr.outcome, paths |-> <<path.value>>,
                      reads |-> <<call>>,
                      steps |-> pre \o <<"path", "read_parquet">> \o tr.steps]

(***************************************************************************)
(* GetSpectraGeoparquetProcessor.execute                                   *)
(***************************************************************************)
MISSING_REQUIRED == <<"M","i","s","s","i","n","g"," ","r","e","q","u","i","r","e","d"," ","p","a","r","a","m","e","t","e","r","s",".">>
PROCESS_ERROR == <<"P","r","o","c","e","s","s"," ","e","x","e","c","u","t","i","o","n"," ","e","r","r","o","r",":"," ">>
MIMETYPE == <<"a","p","p","l","i","c","a","t","i","o","n","/","j","s","o","n">>

\* dict.get(key): the value, or None when the key is absent
Get(d, key) == IF key \in DOMAIN d THEN d[key] ELSE None

NoArgs ==
  [model |-> None, variable |-> None, date |-> None, region |-> None,
   columns |-> None, filters |-> None, remove_duplicates |-> None]

NoCall == [outcome |-> [kind |-> "none"], paths |-> <<>>, reads |-> <<>>, steps |-> <<>>]

RequiredNoRegion(model) ==
  IF Lower(model.v) \in {GDWPS, GEWPS, RDWPS, REWPS}
  THEN Return(<<"model", "variable", "date">>)
  ELSE Raise("ValueError", INVALID_MODEL \o model.v)

\* the if / elif / else on model.lower() that picks the required parameters
Required(model) ==
  IF Lower(model.v) \in {GDWPS, GEWPS}
  THEN Return(<<"model", "variable", "date">>)
  ELSE IF Lower(model.v) \in {RDWPS, REWPS}
  THEN Return(<<"model", "variable", "date", "region">>)
  ELSE Raise("ValueError", INVALID_MODEL \o model.v)

\* all([param in data for param in required])
AllPresent(d, required) == \A i \in 1..Len(required) : required[i] \in DOMAIN d

\* except ValueError as err: raise ProcessorExecuteError(...); anything else
\* the operation raises leaves execute unchanged
Translate(e) ==
  IF IsInstance(e.exc, "ValueError")
  THEN Raise("ProcessorExecuteError", PROCESS_ERROR \o e.msg)
  ELSE e

\* The whole handler.  `examined` lists the payload keys in the order they are
\* looked up, `calls` counts the calls of get_spectra_geoparquet.
Execute(d, rem) ==
  LET model == Get(d, "model")
  IN IF IsNone(model)
     THEN [outcome |-> Raise("AttributeError", NO_LOWER), examined |-> <<"model">>,
           calls |-> 0, args |-> NoArgs, op |-> NoCall]
     ELSE LET required == Required(model)
          IN IF required.kind = "raise"
             THEN [outcome |-> required, examined |-> <<"model">>,
                   calls |-> 0, args |-> NoArgs, op |-> NoCall]
             ELSE IF ~AllPresent(d, required.value)
             THEN [outcome |-> Raise("ProcessorExecuteError", MISSING_REQUIRED),
                   examined |-> <<"model">> \o required.value,
                   calls |-> 0, args |-> NoArgs, op |-> NoCall]
             ELSE LET a == [model |-> model,
                            variable |-> Get(d, "variable"),
                            date |-> Get(d, "date"),
                            region |-> Get(d, "region"),
                            columns |-> Get(d, "columns"),
                            filters |-> Get(d, "filters"),
                            remove_duplicates |-> Get(d, "remove_duplicates")]
                      op == GetSpectraGeoparquet(a, rem)
                  IN [outcome |-> IF op.outcome.kind = "raise"
                                  THEN Translate(op.outcome)
                                  ELSE Return(<<MIMETYPE, op.outcome.value>>),
                      examined |-> <<"model">> \o required.value
                                   \o <<"variable", "date", "region", "columns",
                                        "filters", "remove_duplicates">>,
                      calls |-> 1, args |-> a, op |-> op]

(***************************************************************************)
(* Inputs.  Every behaviour is one call: Init draws the entry point, the   *)
(* request and the answer the remote source will give, and the action of   *)
(* that entry point runs the call to its end.  Nothing persists between    *)
(* calls.                                                                  *)
(***************************************************************************)
MaxRows == 3
SmallRows == 0

MEMBER == <<"m","e","m","b","e","r">>

Models == {Str(<<"g","e","w","p","s">>), Str(<<"G","D","W","P","S">>), Str(<<"R","d","W","p","s">>), Str(<<"R","E","W","P","S">>), Str(<<"w","a","m">>), Str(<<"g","e","w","p","s","x">>), Str(<<>>)}
Variables == {Str(<<"T","h">>)}
Dates == {Str(<<"2","5">>)}
Regions == {Str(<<"A","t","l">>)}
ColumnSpecs == {Str(<<"m","e","m","b","e","r",";","g","e","o","m","e","t","r","y">>), Str(<<"m","e","m","b","e","r">>)}
FilterSpecs ==
  {PyList(<<PyList(<<MEMBER, EQ, 0>>)>>),
   PyList(<<PyList(<<MEMBER, NE, 1>>), PyList(<<INDEX, EQ, 0>>)>>)}
Flags == {Bool(TRUE), Bool(FALSE)}

Keys == <<"model", "variable", "date", "region", "columns", "filters",
          "remove_duplicates">>

\* the values a payload may carry under a key: JSON null or a typed value
PayloadValues(key) ==
  CASE key = "model" -> {None} \cup Models
    [] key = "variable" -> {None} \cup Variables
    [] key = "date" -> {None} \cup Dates
    [] key = "region" -> {None} \cup Regions
    [] key = "columns" -> {Str(<<"m","e","m","b","e","r",";","g","e","o","m","e","t","r","y">>)}
    [] key = "filters" -> {PyList(<<PyList(<<MEMBER, EQ, 0>>)>>)}
    [] OTHER -> Flags

\* every payload: any subset of the keys present, each with one of its values
RECURSIVE PayloadsOver(_)
PayloadsOver(keys) ==
  IF keys = <<>> THEN {<<>>}
  ELSE LET rest == PayloadsOver(Tail(keys))
       IN rest \cup {(Head(keys) :> v) @@ r : v \in PayloadValues(Head(keys)), r \in rest}

Payloads == PayloadsOver(Keys)

WideArgs ==
  [model : Models, variable : {None} \cup Variables, date : {None} \cup Dates,
   region : {None} \cup Regions, columns : {None} \cup ColumnSpecs,
   filters : {None} \cup FilterSpecs, remove_duplicates : {None, Bool(TRUE)}]

NarrowPayloads ==
  {d \in Payloads :
     /\ {"model", "variable", "date"} \subseteq DOMAIN d
     /\ DOMAIN d \subseteq {"model", "variable", "date", "remove_duplicates"}
     /\ d["model"] = Str(<<"g","e","w","p","s">>)
     /\ ~IsNone(d["variable"])
     /\ ~IsNone(d["date"])}

NarrowArgs ==
  [model : {Str(<<"g","e","w","p","s">>)}, variable : Variables, date : Dates, region : {None},
   columns : {None, Str(<<"m","e","m","b","e","r">>)}, filters : {None, PyList(<<PyList(<<MEMBER, EQ, 0>>)>>)},
   remove_duplicates : {None} \cup Flags]

Schemas ==
  {<<MEMBER>>, <<MEMBER, GEOMETRY>>, <<INDEX, GEOMETRY>>, <<MEMBER, INDEX>>,
   <<GEOMETRY, POINT>>, <<INDEX, LEVEL_0, GEOMETRY>>}

\* well-known-binary points: byte order 1, geometry type 1 (Point), x, y
WkbPoints == {<<1, 1, 2, 5>>, <<1, 1, 7, 3>>}

CellValues(col) == IF col = GEOMETRY THEN WkbPoints ELSE {0, 1}

RECURSIVE RowsOf(_)
RowsOf(schema) ==
  IF schema = <<>> THEN {<<>>}
  ELSE {(Head(schema) :> v) @@ r : v \in CellValues(Head(schema)), r \in RowsOf(Tail(schema))}

TablesOf(schema, n) ==
  {[columns |-> schema, rows |-> rows] :
     rows \in UNION {[1..k -> RowsOf(schema)] : k \in 0..n}}

TablesUpTo(n) == UNION {TablesOf(schema, n) : schema \in Schemas}

Messages == {<<"4","0","4">>}

Failures ==
  {[status |-> k, msg |-> m, table |-> [columns |-> <<>>, rows |-> <<>>]] :
     k \in {"FileNotFoundError", "EmptyDataError", "ArrowInvalid", "OSError"},
     m \in Messages}

Stored(tables) == {[status |-> "ok", msg |-> <<>>, table |-> tb] : tb \in tables}

SmallRemotes == Failures \cup Stored(TablesUpTo(SmallRows))
WideRemotes == Stored(TablesUpTo(MaxRows))

NoResult == [kind |-> "none"]

Init ==
  /\ pc = "start"
  /\ opCalls = 0
  /\ examined = <<>>
  /\ paths = <<>>
  /\ reads = <<>>
  /\ steps = <<>>
  /\ opResult = NoResult
  /\ result = NoResult
  /\ \/ /\ entry = "execute"
        /\ args = NoArgs
        /\ \/ data \in Payloads /\ remote \in SmallRemotes
           \/ data \in NarrowPayloads /\ remote \in WideRemotes
     \/ /\ entry = "direct"
        /\ data = <<>>
        /\ \/ args \in WideArgs /\ remote \in SmallRemotes
           \/ args \in NarrowArgs /\ remote \in WideRemotes

\* a request reaches the processor: execute(data) runs to its end
ExecuteRequest ==
  /\ pc = "start"
  /\ entry = "execute"
  /\ LET r == Execute(data, remote)
     IN /\ result' = r.outcome
        /\ examined' = r.examined
        /\ opCalls' = r.calls
        /\ args' = r.args
        /\ opResult' = r.op.outcome
        /\ paths' = r.op.paths
        /\ reads' = r.op.reads
        /\ steps' = r.op.steps
  /\ pc' = "done"
  /\ UNCHANGED <<entry, data, remote>>

\* get_spectra_geoparquet is called on its own, not through the processor
DirectCall ==
  /\ pc = "start"
  /\ entry = "direct"
  /\ LET r == GetSpectraGeoparquet(args, remote)
     IN /\ opResult' = r.outcome
        /\ paths' = r.paths
        /\ reads' = r.reads
        /\ steps' = r.steps
  /\ opCalls' = 1
  /\ pc' = "done"
  /\ UNCHANGED <<entry, data, args, remote, examined, result>>

Next == ExecuteRequest \/ DirectCall

Spec == Init /\ [][Next]_vars

(***************************************************************************)
(* Properties                                                              *)
(***************************************************************************)
KnownModels == {GEWPS, GDWPS, RDWPS, REWPS}

IsFamilyA(model) == ~IsNone(model) /\ Lower(model.v) \in {GEWPS, GDWPS}
IsFamilyB(model) == ~IsNone(model) /\ Lower(model.v) \in {RDWPS, REWPS}
IsKnown(model) == IsFamilyA(model) \/ IsFamilyB(model)

OpDone == pc = "done" /\ opCalls = 1
ExecuteDone == pc = "done" /\ entry = "execute"

\* sub occurs in s as a contiguous run of characters
Contains(s, sub) ==
  \E k \in 0..(Len(s) - Len(sub)) : SubSeq(s, k + 1, k + Len(sub)) = sub

\* what the reader answered to the one call made to it
ReaderAnswer == ReadParquet(reads[1].path, reads[1].columns, reads[1].filters, remote)

\* C1: a call of get_spectra_geoparquet whose model is none of gewps, gdwps,
\* rdwps, rewps (case-insensitively) fails with the invalid-model ValueError,
\* whatever the other arguments are, and it builds no path string and never
\* calls the table reader.
C1_InvalidModelRejectedBeforeIO ==
  (OpDone /\ ~IsNone(args.model) /\ Lower(args.model.v) \notin KnownModels)
    => /\ opResult.kind = "raise"
       /\ opResult.exc = "ValueError"
       /\ opResult.msg = INVALID_MODEL \o args.model.v
       /\ paths = <<>>
       /\ reads = <<>>

C1_Witness ==
  /\ OpDone
  /\ Lower(args.model.v) \notin KnownModels
  /\ ~IsNone(args.columns)
  /\ ~IsNone(args.filters)
  /\ IsNone(args.variable)
  /\ remote.status = "ok"
  /\ opResult.kind = "raise"
  /\ opResult.exc = "ValueError"

\* C2: execute on a payload whose model is of a known family and that lacks a
\* parameter required for that family (A: model, variable, date; B: those and
\* region) fails with the "Missing required parameters." execution error and
\* does not call get_spectra_geoparquet.
C2_MissingRequiredNeverCalls ==
  (/\ ExecuteDone
   /\ "model" \in DOMAIN data
   /\ IsKnown(data["model"])
   /\ \/ ~({"variable", "date"} \subseteq DOMAIN data)
      \/ IsFamilyB(data["model"]) /\ "region" \notin DOMAIN data)
    => /\ result = Raise("ProcessorExecuteError", MISSING_REQUIRED)
       /\ opCalls = 0
       /\ reads = <<>>

C2_Witness ==
  /\ ExecuteDone
  /\ {"model", "variable", "date"} \subseteq DOMAIN data
  /\ IsFamilyB(data["model"])
  /\ "region" \notin DOMAIN data
  /\ result.kind = "raise"
  /\ result.exc = "ProcessorExecuteError"
  /\ opCalls = 0

\* C4: when the table reader fails, get_spectra_geoparquet fails as well, with
\* FileNotFoundError "File not found: ..." for an absent resource, with
\* EmptyDataError "Empty data: ..." for an empty result and with a plain
\* Exception "An unexpected error occurred: ..." for any other failure, and
\* the reader's message is contained in the new message.
C4_ReaderFailureWrapped ==
  (OpDone /\ reads # <<>> /\ ReaderAnswer.kind = "raise")
    => /\ opResult.kind = "raise"
       /\ Contains(opResult.msg, ReaderAnswer.msg)
       /\ CASE ReaderAnswer.exc = "FileNotFoundError" ->
                 /\ opResult.exc = "FileNotFoundError"
                 /\ opResult.msg = FILE_NOT_FOUND \o ReaderAnswer.msg
            [] ReaderAnswer.exc = "EmptyDataError" ->
                 /\ opResult.exc = "EmptyDataError"
                 /\ opResult.msg = EMPTY_DATA \o ReaderAnswer.msg
            [] OTHER ->
                 /\ opResult.exc = "Exception"
                 /\ opResult.msg = UNEXPECTED \o ReaderAnswer.msg

C4_Witness ==
  /\ OpDone
  /\ reads # <<>>
  /\ remote.status = "EmptyDataError"
  /\ Len(remote.msg) > 0
  /\ opResult.kind = "raise"
  /\ opResult.exc = "EmptyDataError"

\* C7: whenever get_spectra_geoparquet calls the table reader, the location it
\* passes is {base}/{model_lower}/{date}_MSC_{MODEL_UPPER}_{VARIABLE_UPPER}.geoparquet
\* for gewps and gdwps, and
\* {base}/{model_lower}/{date}_MSC_{MODEL_UPPER}-{region}_{VARIABLE_UPPER}.geoparquet
\* for rdwps and rewps; the region does not occur in a family-A path.
C7_PathFollowsFamilyPattern ==
  (OpDone /\ reads # <<>>)
    => /\ Len(reads) = 1
       /\ paths = <<reads[1].path>>
       /\ IsKnown(args.model)
       /\ reads[1].path =
            MAIN_URL \o <<"/">> \o Lower(args.model.v) \o <<"/">> \o Format(args.date)
              \o <<"_","M","S","C","_">> \o Upper(args.model.v)
              \o (IF IsFamilyB(args.model) THEN <<"-">> \o Format(args.region) ELSE <<>>)
              \o <<"_">> \o Upper(args.variable.v)
              \o <<".","g","e","o","p","a","r","q","u","e","t">>

C7_Witness ==
  /\ OpDone
  /\ reads # <<>>
  /\ IsFamilyB(args.model)
  /\ args.model.v # Lower(args.model.v)
  /\ args.model.v # Upper(args.model.v)
  /\ ~IsNone(args.region)
  /\ args.variable.v # Upper(args.variable.v)

\* the table the reader returned, and the rows the output is to show: the
\* distinct rows in first-occurrence order when dedup is requested, else all
Loaded == ReaderAnswer.value
Dedup == OpDone /\ Truthy(args.remove_duplicates)
ShownRows ==
  IF Truthy(args.remove_duplicates)
  THEN SelectPositions(Loaded.rows, FirstOccurrences(Loaded), 1)
  ELSE Loaded.rows
Positions == {i - 1 : i \in 1..Len(ShownRows)}

\* C3: in execute, a failure of get_spectra_geoparquet is re-signalled as a
\* ProcessorExecuteError only if it is a ValueError, and a not-found, empty-data
\* or generic load failure leaves execute as the error the operation raised.
C3_OnlyValueErrorsResignalled ==
  (ExecuteDone /\ opCalls = 1 /\ opResult.kind = "raise")
    => /\ (result.exc = "ProcessorExecuteError" => IsInstance(opResult.exc, "ValueError"))
       /\ (opResult.exc \in {"FileNotFoundError", "EmptyDataError", "Exception"}
             => result = opResult)

\* C5: when the loaded table has a "geometry" column, the output has exactly
\* the loaded columns with "geometry" removed and "point" added, "point" has
\* one {x, y} entry per row (per distinct row under dedup) equal to the decoded
\* coordinates of that row, and every other column keeps its values.
C5_GeometryBecomesPoint ==
  (OpDone /\ reads # <<>> /\ ReaderAnswer.kind = "return"
     /\ GEOMETRY \in Range(Loaded.columns))
    => /\ opResult.kind = "return"
       /\ DOMAIN opResult.value = (Range(Loaded.columns) \ {GEOMETRY}) \cup {POINT}
       /\ \A c \in DOMAIN opResult.value : DOMAIN opResult.value[c] = Positions
       /\ \A i \in 1..Len(ShownRows) :
            /\ opResult.value[POINT][i - 1].x = ShownRows[i][GEOMETRY][3]
            /\ opResult.value[POINT][i - 1].y = ShownRows[i][GEOMETRY][4]
            /\ \A c \in Range(Loaded.columns) \ {GEOMETRY, POINT} :
                 opResult.value[c][i - 1] = ShownRows[i][c]

\* C6: execute on a payload whose model value matches none of the four known
\* identifiers fails with the invalid-model ValueError, having looked up no
\* payload key but "model" and without calling get_spectra_geoparquet.
C6_UnknownModelRejectedFirst ==
  (ExecuteDone /\ ~IsKnown(Get(data, "model")))
    => /\ result.kind = "raise"
       /\ result.exc = "ValueError"
       /\ examined = <<"model">>
       /\ opCalls = 0

\* C8: when remove_duplicates is truthy, the output rows are the distinct full
\* rows of the loaded table, each once and in first-occurrence order, at the
\* row positions 0 .. k-1, with or without a "geometry" column.
C8_DedupDistinctRowsContiguous ==
  (Dedup /\ reads # <<>> /\ ReaderAnswer.kind = "return")
    => /\ opResult.kind = "return"
       /\ \A c \in DOMAIN opResult.value : DOMAIN opResult.value[c] = Positions
       /\ \A c \in Range(Loaded.columns) \ {GEOMETRY} : c \in DOMAIN opResult.value
       /\ \A i \in 1..Len(ShownRows) :
            \A c \in Range(Loaded.columns) :
              IF c = GEOMETRY
              THEN opResult.value[POINT][i - 1] = PointDict(FromWkb(ShownRows[i][c]))
              ELSE (c = POINT /\ GEOMETRY \in Range(Loaded.columns))
                   \/ opResult.value[c][i - 1] = ShownRows[i][c]

\* C9: every call of get_spectra_geoparquet with a valid model calls the table
\* reader exactly once, with columns split on ";" (None when absent) and every
\* filter clause as a tuple in the same order, and the load comes before
\* deduplication and geometry handling.
C9_ReaderCalledOnceWithPushdown ==
  (OpDone /\ IsKnown(args.model))
    => /\ Len(reads) = 1
       /\ reads[1].columns =
            (IF IsNone(args.columns) THEN None ELSE PyList(Split(args.columns.v, ";")))
       /\ reads[1].filters =
            (IF IsNone(args.filters) THEN None
             ELSE PyList([i \in 1..Len(args.filters.v) |-> PyTuple(args.filters.v[i].v)]))
       /\ \A i \in 1..Len(steps) :
            steps[i] \in {"drop_duplicates", "geometry", "to_dict"}
              => \E j \in 1..(i - 1) : steps[j] = "read_parquet"

\* C10: execute either returns ("application/json", the operation's output) or
\* fails with the invalid-model error, the missing-parameters error, a process
\* execution error or a load failure of the operation, and nothing else; and
\* the operation is called only with non-null required parameters.
C10_ExecuteOutcomesClosed ==
  ExecuteDone
    => /\ \/ /\ result.kind = "return"
             /\ opResult.kind = "return"
             /\ result.value = <<MIMETYPE, opResult.value>>
          \/ /\ result.kind = "raise"
             /\ \/ result.exc = "ValueError" /\ opCalls = 0
                \/ result.exc = "ProcessorExecuteError"
                \/ /\ result.exc \in {"FileNotFoundError", "EmptyDataError", "Exception"}
                   /\ result = opResult
       /\ opCalls = 1
            => /\ ~IsNone(args.model) /\ ~IsNone(args.variable) /\ ~IsNone(args.date)
               /\ IsFamilyB(args.model) => ~IsNone(args.region)

====
